---- MODULE Spec2Model ----
(***************************************************************************)
(* A state-machine model of pygeomscarf: the cryostat profile generators   *)
(* (cryo.py), the registry-mutating assemblers (cryo.py, strings.py,      *)
(* source.py, cavern.py) and the top-level constructor (core.py).          *)
(*                                                                         *)
(* Lengths are integers in micrometres, so that TOL (0.01 mm) is 10 and    *)
(* the halvings of the code (x / 2) are exact on the multiples of TOL the  *)
(* dimension sets are drawn from.                                          *)
(***************************************************************************)
EXTENDS Integers, Sequences, FiniteSets, TLC

VARIABLES
    pc,             \* position of the running call
    cryostat_meta,  \* the cryostat dimension set (configs/cryostat.yaml)
    profile,        \* result of the last profile generator call
    config,         \* construct(): the configuration mapping
    public_geometry,\* construct(): the public_geometry flag
    internal_ok,    \* whether LegendMetadata(lazy=True) succeeds (no GitCommandError)
    store,          \* the metadata store: record key -> enrichment value
    reg,            \* the registry (pyg4ometry.geant4.Registry)
    err,            \* the exception the running call ended with, or "none"
    call,           \* what the running call was given and what it has computed
    history         \* names of the registries returned by earlier construct() calls

vars == <<pc, cryostat_meta, profile, config, public_geometry, internal_ok,
          store, reg, err, call, history>>

----------------------------------------------------------------------------
(* Units and bounds *)

\* cryo.py:54  TOL = 0.01 mm, in micrometres
TOL == 10

\* one millimetre in micrometres
MM == 100 * TOL

\* dimension values range over the multiples 0, TOL, .., MaxDim * TOL of TOL
MaxDim == 3

DimVals == {TOL * k : k \in 0..MaxDim}

\* values for the dimensions no radius is subtracted from
OtherVals == {TOL, TOL * MaxDim}

Half(x) == x \div 2

----------------------------------------------------------------------------
(* cryo.py: the profile generators *)

\* mutant: the upper part of the vessel is drawn without half the upper thickness
inner_cryostat_profile_mut(m) ==
    LET inner == m.inner IN
    [radius |-> << 0,
                   inner.radius_in_mm + inner.lower.thickness_in_mm,
                   inner.radius_in_mm + inner.lower.thickness_in_mm,
                   inner.radius_in_mm + Half(inner.lower.thickness_in_mm),
                   inner.radius_in_mm + Half(inner.lower.thickness_in_mm),
                   0 >>,
     height |-> << 0,
                   0,
                   inner.lower.height_in_mm + inner.lower.thickness_in_mm,
                   inner.lower.height_in_mm + inner.lower.thickness_in_mm,
                   inner.lower.height_in_mm + inner.upper.height_in_mm
                                            + inner.lower.thickness_in_mm,
                   inner.lower.height_in_mm + inner.upper.height_in_mm
                                            + inner.lower.thickness_in_mm >>]

inner_cryostat_profile(m) ==
    LET inner == m.inner IN
    [radius |-> << 0,
                   inner.radius_in_mm + inner.lower.thickness_in_mm,
                   inner.radius_in_mm + inner.lower.thickness_in_mm,
                   inner.radius_in_mm + Half(inner.lower.thickness_in_mm)
                                      + Half(inner.upper.thickness_in_mm),
                   inner.radius_in_mm + Half(inner.lower.thickness_in_mm)
                                      + Half(inner.upper.thickness_in_mm),
                   0 >>,
     height |-> << 0,
                   0,
                   inner.lower.height_in_mm + inner.lower.thickness_in_mm,
                   inner.lower.height_in_mm + inner.lower.thickness_in_mm,
                   inner.lower.height_in_mm + inner.upper.height_in_mm
                                            + inner.lower.thickness_in_mm,
                   inner.lower.height_in_mm + inner.upper.height_in_mm
                                            + inner.lower.thickness_in_mm >>]

\* mutant: the tapered radius adds the upper half thickness instead of subtracting it,
\* and the top vertex on the axis is left out
lar_profile_mut(m) ==
    LET inner == m.inner IN
    [radius |-> << 0,
                   inner.radius_in_mm,
                   inner.radius_in_mm,
                   inner.radius_in_mm - Half(inner.lower.thickness_in_mm)
                                      - Half(inner.upper.thickness_in_mm),
                   inner.radius_in_mm - Half(inner.lower.thickness_in_mm)
                                      - Half(inner.upper.thickness_in_mm) >>,
     height |-> << 0,
                   0,
                   inner.lower.height_in_mm,
                   inner.lower.height_in_mm,
                   inner.lower.height_in_mm + inner.upper.height_in_mm - TOL,
                   inner.lower.height_in_mm + inner.upper.height_in_mm - TOL >>]

lar_profile(m) ==
    LET inner == m.inner IN
    [radius |-> << 0,
                   inner.radius_in_mm,
                   inner.radius_in_mm,
                   inner.radius_in_mm + Half(inner.lower.thickness_in_mm)
                                      - Half(inner.upper.thickness_in_mm),
                   inner.radius_in_mm + Half(inner.lower.thickness_in_mm)
                                      - Half(inner.upper.thickness_in_mm),
                   0 >>,
     height |-> << 0,
                   0,
                   inner.lower.height_in_mm,
                   inner.lower.height_in_mm,
                   inner.lower.height_in_mm + inner.upper.height_in_mm - TOL,
                   inner.lower.height_in_mm + inner.upper.height_in_mm - TOL >>]

gaseous_argon_profile(m) ==
    LET inner == m.inner IN
    [radius |-> << 0,
                   inner.radius_in_mm + Half(inner.lower.thickness_in_mm)
                                      - Half(inner.upper.thickness_in_mm) - TOL,
                   inner.radius_in_mm + Half(inner.lower.thickness_in_mm)
                                      - Half(inner.upper.thickness_in_mm) - TOL,
                   0 >>,
     height |-> << 0,
                   0,
                   m.gas_argon.height_in_mm - 2 * TOL,
                   m.gas_argon.height_in_mm - 2 * TOL >>]

outer_cryostat_profile(m) ==
    LET outer == m.outer IN
    [radius |-> << 0,
                   outer.radius_in_mm + outer.thickness_in_mm,
                   outer.radius_in_mm + outer.thickness_in_mm,
                   outer.radius_in_mm,
                   outer.radius_in_mm,
                   0 >>,
     height |-> << 0, 0, outer.height_in_mm, outer.height_in_mm,
                   outer.thickness_in_mm, outer.thickness_in_mm >>]

cryostat_lid_profile(m) ==
    LET lid == m.top IN
    [radius |-> << 0, lid.radius_in_mm, lid.radius_in_mm, 0 >>,
     height |-> << 0, 0, lid.height_in_mm, lid.height_in_mm >>]

lead_profile(m) ==
    LET outer == m.outer
        lead  == m.lead
    IN
    [radius |-> << 0,
                   outer.radius_in_mm + lead.air_gap_in_mm,
                   outer.radius_in_mm + lead.air_gap_in_mm,
                   outer.radius_in_mm + lead.air_gap_in_mm + lead.thickness_in_mm,
                   outer.radius_in_mm + lead.air_gap_in_mm + lead.thickness_in_mm,
                   0 >>,
     height |-> << 0,
                   0,
                   outer.height_in_mm + lead.air_gap_in_mm,
                   outer.height_in_mm + lead.air_gap_in_mm,
                   0 - lead.thickness_in_mm,
                   0 - lead.thickness_in_mm >>]

----------------------------------------------------------------------------
(* The registry (pyg4ometry.geant4.Registry) and the running call.          *)
(* A call in progress is a record [reg, err]: every step is skipped once an  *)
(* exception has been raised, so err holds the first exception of the call.  *)
(* Volumes and solids are referred to by their registered names.             *)

EmptyMap == [x \in {} |-> 0]

\* no profile generator has returned yet
NoProfile == [name |-> "none", radius |-> << >>, height |-> << >>]

\* no call is running
NoCall == [op |-> "none"]

NoDetector == [kind |-> "none", uid |-> 0 - 1, enrichment |-> "none"]

NoRegistry ==
    [exists |-> FALSE, worldVolume |-> "none", _world |-> "none",
     solidDict |-> EmptyMap,
     logicalVolumeDict |-> EmptyMap, physicalVolumeDict |-> EmptyMap,
     surfaceDict |-> EmptyMap]

\* geant4.Registry()
NewRegistry == [NoRegistry EXCEPT !.exists = TRUE]

Ok(E) == E.err = "none"

\* statements in order: F, the state after the later statements, is what the call
\* goes on with when the earlier ones, ending in state E, raised nothing; an
\* exception raised by them ends the call in E
Then(E, F) == IF Ok(E) THEN F ELSE E

Raise(E, e) == IF Ok(E) THEN [E EXCEPT !.err = e] ELSE E

\* the value read for a key or attribute that the mapping does not hold
Missing == 0 - 999 * MM * MM

\* mutant: a key the mapping does not hold reads as a value
getitem_mut(E, val) == E

\* mapping[key], val being what the mapping holds for the key: a KeyError when
\* it holds nothing
getitem(E, val) == IF Ok(E) /\ val = Missing THEN Raise(E, "KeyError") ELSE E

\* mapping.key on an AttrsDict: an AttributeError when it holds nothing
getattr(E, val) == IF Ok(E) /\ val = Missing THEN Raise(E, "AttributeError") ELSE E

\* a solid other than a polycone: only its kind is kept
Shape(kind) == [kind |-> kind, radius |-> << >>, height |-> << >>]

\* mutant: a solid registered under a name in use silently replaces the entry
addSolid_mut(E, name, solid) ==
    IF ~Ok(E) THEN E
    ELSE [E EXCEPT !.reg.solidDict = (name :> solid) @@ @]

\* Registry.addSolid: a solid (or optical surface model) under its name
addSolid(E, name, solid) ==
    IF ~Ok(E) THEN E
    ELSE IF name \in DOMAIN E.reg.solidDict THEN Raise(E, "IdenticalNameError")
    ELSE [E EXCEPT !.reg.solidDict = (name :> solid) @@ @]

\* the number of entries a registry holds; an entry registered when the registry
\* held k entries has the sequence number k
Count(r) ==
    Cardinality(DOMAIN r.solidDict) + Cardinality(DOMAIN r.logicalVolumeDict)
        + Cardinality(DOMAIN r.physicalVolumeDict) + Cardinality(DOMAIN r.surfaceDict)

\* geant4.LogicalVolume(solid, material, name, registry)
addLogicalVolume(E, name, solid, material) ==
    IF ~Ok(E) THEN E
    ELSE IF name \in DOMAIN E.reg.logicalVolumeDict THEN Raise(E, "IdenticalNameError")
    ELSE [E EXCEPT !.reg.logicalVolumeDict =
              (name :> [solid |-> solid, material |-> material,
                        seq |-> Count(E.reg)]) @@ @]

\* geant4.PhysicalVolume(rotation, position, logical, name, mother, registry)
addPhysicalVolume(E, name, lv, mother, y, z) ==
    IF ~Ok(E) THEN E
    ELSE IF name \in DOMAIN E.reg.physicalVolumeDict THEN Raise(E, "IdenticalNameError")
    ELSE [E EXCEPT !.reg.physicalVolumeDict =
              (name :> [lv |-> lv, mother |-> mother, y |-> y, z |-> z,
                        pygeom_active_detector |-> NoDetector,
                        seq |-> Count(E.reg)]) @@ @]

\* geant4.BorderSurface(name, pv1, pv2, optical_surface, registry)
addSurface(E, name, pv1, pv2, surface) ==
    IF ~Ok(E) THEN E
    ELSE IF name \in DOMAIN E.reg.surfaceDict THEN Raise(E, "IdenticalNameError")
    ELSE [E EXCEPT !.reg.surfaceDict =
              (name :> [pv1 |-> pv1, pv2 |-> pv2, surface |-> surface,
                        seq |-> Count(E.reg)]) @@ @]

\* reg.physicalVolumeDict[name]: a KeyError when the name is not placed
lookupPhysicalVolume(E, name) ==
    IF Ok(E) /\ name \notin DOMAIN E.reg.physicalVolumeDict
    THEN Raise(E, "KeyError") ELSE E

\* reg.logicalVolumeDict[name]
lookupLogicalVolume(E, name) ==
    IF Ok(E) /\ name \notin DOMAIN E.reg.logicalVolumeDict
    THEN Raise(E, "KeyError") ELSE E

\* mutant: every active detector gets the integer id 0
setActiveDetector_mut(E, name, kind, uid, enrichment) ==
    IF ~Ok(E) THEN E
    ELSE [E EXCEPT !.reg.physicalVolumeDict[name].pygeom_active_detector =
              [kind |-> kind, uid |-> 0, enrichment |-> enrichment]]

\* pv.pygeom_active_detector = RemageDetectorInfo(kind, uid, payload)
setActiveDetector(E, name, kind, uid, enrichment) ==
    IF ~Ok(E) THEN E
    ELSE [E EXCEPT !.reg.physicalVolumeDict[name].pygeom_active_detector =
              [kind |-> kind, uid |-> uid, enrichment |-> enrichment]]

\* utils._place_pv(name, lv, mother_lv, z_pos, reg): an unrotated placement on the axis
_place_pv(E, name, lv, mother_lv, z_pos) ==
    addPhysicalVolume(E, name, lv, mother_lv, 0, z_pos)

----------------------------------------------------------------------------
(* cryo.py: the cryostat assembler *)

_construct_polycone(E, name, radius, height, material) ==
    addLogicalVolume(
        addSolid(E, name, [kind |-> "GenericPolycone", radius |-> radius,
                           height |-> height]),
        name, name, material)

\* mutant: only the border surface from the lar to the cryostat is created
set_steel_reflectivity_mut(E, cryostat_name, lar_name) ==
    LET E1 == addSolid(E, "surface_to_steel", Shape("OpticalSurface"))
        E2 == lookupPhysicalVolume(E1, cryostat_name)
        E3 == lookupPhysicalVolume(E2, lar_name)
    IN  addSurface(E3, "bsurface_lar_cryostat", lar_name, cryostat_name,
                   "surface_to_steel")

set_steel_reflectivity(E, cryostat_name, lar_name) ==
    LET E1 == addSolid(E, "surface_to_steel", Shape("OpticalSurface"))
        E2 == lookupPhysicalVolume(E1, cryostat_name)
        E3 == lookupPhysicalVolume(E2, lar_name)
        E4 == addSurface(E3, "bsurface_lar_cryostat", lar_name, cryostat_name,
                         "surface_to_steel")
    IN  addSurface(E4, "bsurface_cryostat_lar", cryostat_name, lar_name,
                   "surface_to_steel")

\* the leg height of the outer vessel below the inner one (cryo.py:424), 150 mm
LegHeight == 150 * MM

\* the gap between the top of the inner vessel and the lid (cryo.py:441), 3 mm
LidGap == 3 * MM

\* profiles[name]["shift"]: the shift build_cryostat records for the plot of
\* each component
profiles_shift(m) ==
    LET shift == Half(m.inner.lower.height_in_mm + m.inner.upper.height_in_mm)
    IN  [inner_cryostat |-> 0 - shift,
         lar            |-> 0 - shift + m.inner.lower.thickness_in_mm,
         gaseous_argon  |-> 0 - shift + m.inner.lower.height_in_mm
                                + m.inner.upper.height_in_mm
                                - m.gas_argon.height_in_mm,
         outer_cryostat |-> 0 - shift - m.inner.lower.thickness_in_mm - LegHeight,
         cryostat_lid   |-> m.inner.lower.height_in_mm + m.inner.upper.height_in_mm
                                + LidGap - shift,
         lead_shield    |-> 0 - LegHeight - m.outer.thickness_in_mm
                                - m.lead.air_gap_in_mm - shift]

build_cryostat(E, m, world_log) ==
    LET shift == Half(m.inner.lower.height_in_mm + m.inner.upper.height_in_mm)
        p_inner == inner_cryostat_profile(m)
        E1 == _construct_polycone(E, "inner_cryostat", p_inner.radius, p_inner.height,
                                  "metal_steel")
        E2 == _place_pv(E1, "inner_cryostat", "inner_cryostat", world_log, 0 - shift)
        p_lar == lar_profile(m)
        E3 == _construct_polycone(E2, "lar", p_lar.radius, p_lar.height, "liquidargon")
        E4 == _place_pv(E3, "lar", "lar", "inner_cryostat",
                        m.inner.lower.thickness_in_mm)
        E5 == set_steel_reflectivity(E4, "lar", "inner_cryostat")
        p_gas == gaseous_argon_profile(m)
        E6 == _construct_polycone(E5, "gaseous_argon", p_gas.radius, p_gas.height,
                                  "G4_Ar")
        E7 == _place_pv(E6, "gaseous_argon", "gaseous_argon", "lar",
                        m.inner.lower.height_in_mm + m.inner.upper.height_in_mm
                            - m.gas_argon.height_in_mm)
        p_outer == outer_cryostat_profile(m)
        E8 == _construct_polycone(E7, "outer_cryostat", p_outer.radius, p_outer.height,
                                  "metal_steel")
        E9 == _place_pv(E8, "outer_cryostat", "outer_cryostat", world_log,
                        0 - LegHeight - m.inner.lower.thickness_in_mm - shift)
        p_lid == cryostat_lid_profile(m)
        E10 == _construct_polycone(E9, "cryostat_lid", p_lid.radius, p_lid.height,
                                   "metal_steel")
        z_lid == m.inner.lower.height_in_mm + m.inner.upper.height_in_mm
                     + LidGap - shift
        E11 == _place_pv(E10, "cryostat_lid", "cryostat_lid", world_log, z_lid)
        p_lead == lead_profile(m)
        E12 == _construct_polycone(getattr(E11, m.lead.air_gap_in_mm), "lead_shield",
                                   p_lead.radius, p_lead.height, "G4_Pb")
    IN  Then(E2, Then(E4, Then(E5, Then(E7, Then(E9, Then(E11,
            _place_pv(E12, "lead_shield", "lead_shield", world_log,
                      0 - LegHeight - 2 * m.outer.thickness_in_mm
                          - m.lead.air_gap_in_mm - shift)))))))

----------------------------------------------------------------------------
(* metadata.py and the metadata collaborator.                                *)
(* A metadata source is a record [shape]: "LegendMetadata" (the internal     *)
(* source), "PublicMetadataProxy" (the public substitute) or "AttrsDict" (a  *)
(* flat mapping from detector names to records). The records themselves live *)
(* in the store, so that a record changed in place stays changed.            *)

DetNames == {"V09999A", "V09999B", "B09999A"}

\* _DiodeProxy.__getitem__: det_name[0] + "99000A"
TemplateOf(det_name) ==
    IF det_name \in {"V09999A", "V09999B"} THEN "V99000A" ELSE "B99000A"

Templates == {TemplateOf(n) : n \in DetNames}

\* production.enrichment.val is None
EnrichmentNone == 0 - 1

\* strings.py:241  the default enrichment fraction 0.9, in percent
DefaultEnrichment == 90

\* the key of the record that diodes[name] hands out
RecordKey(meta, name) ==
    IF meta.shape = "PublicMetadataProxy" THEN TemplateOf(name) ELSE name

\* meta.hardware.detectors.germanium.diodes[name]: a flat mapping has no
\* attribute hardware; a name the source does not hold is a KeyError
diodes_getitem(E, meta, name) ==
    IF ~Ok(E) THEN E
    ELSE IF meta.shape = "AttrsDict" THEN Raise(E, "AttributeError")
    ELSE IF RecordKey(meta, name) \notin DOMAIN E.store THEN Raise(E, "KeyError")
    ELSE E

----------------------------------------------------------------------------
(* strings.py: detector strings and the fiber shroud *)

\* strings.py:18  FIBER_DIM = 1 mm
FIBER_DIM == 1000

\* strings.py:19  TPB_THICKNESS_UM = 1
TPB_THICKNESS_UM == 1

\* strings.py:60  default shroud_height = 1000 mm
DefaultShroudHeight == 1000 * MM

\* strings.py:61  default shroud_radius = 115 mm
DefaultShroudRadius == 115 * MM

\* strings.py:106  the integer id given to the fiber core
FiberCoreUid == 100

Tubs(rmin, rmax, dz) == [kind |-> "Tubs", radius |-> <<rmin, rmax>>, height |-> <<dz>>]

set_germanium_reflectivity(E, hpge, lar_name) ==
    LET E1 == addSolid(E, "surface_to_germanium", Shape("OpticalSurface"))
        E2 == lookupPhysicalVolume(E1, lar_name)
    IN  addSurface(E2, "bsurface_lar_ge_" \o hpge, lar_name, hpge,
                   "surface_to_germanium")

\* mutant: the core is placed inside its own logical volume
build_fiber_shroud_mut(E, shroud_height, shroud_radius) ==
    LET coating_dim == FIBER_DIM + 2 * TPB_THICKNESS_UM
        E1 == addSolid(E, "tpb_coating",
                       Tubs(shroud_radius - Half(coating_dim),
                            shroud_radius + Half(coating_dim), shroud_height))
        E2 == addLogicalVolume(E1, "tpb_coating", "tpb_coating", "tpb_on_fibers")
        E3 == addSolid(E2, "fiber_core",
                       Tubs(shroud_radius - Half(FIBER_DIM),
                            shroud_radius + Half(FIBER_DIM), shroud_height))
        E4 == addLogicalVolume(E3, "fiber_core", "fiber_core", "ps_fibers")
        E5 == _place_pv(E4, "fiber_core", "fiber_core", "fiber_core", 0)
        E6 == lookupPhysicalVolume(E5, "fiber_core")
    IN  Then(E3, setActiveDetector(E6, "fiber_core", "optical", FiberCoreUid,
                                   EnrichmentNone))

build_fiber_shroud(E, shroud_height, shroud_radius) ==
    LET coating_dim == FIBER_DIM + 2 * TPB_THICKNESS_UM
        E1 == addSolid(E, "tpb_coating",
                       Tubs(shroud_radius - Half(coating_dim),
                            shroud_radius + Half(coating_dim), shroud_height))
        E2 == addLogicalVolume(E1, "tpb_coating", "tpb_coating", "tpb_on_fibers")
        E3 == addSolid(E2, "fiber_core",
                       Tubs(shroud_radius - Half(FIBER_DIM),
                            shroud_radius + Half(FIBER_DIM), shroud_height))
        E4 == addLogicalVolume(E3, "fiber_core", "fiber_core", "ps_fibers")
        E5 == _place_pv(E4, "fiber_core", "fiber_core", "tpb_coating", 0)
        E6 == lookupPhysicalVolume(E5, "fiber_core")
    IN  Then(E3, setActiveDetector(E6, "fiber_core", "optical", FiberCoreUid,
                                   EnrichmentNone))

set_tpb_surface(E, tpb_name, lar_name) ==
    LET E1 == addSolid(E, "surface_lar_to_tpb", Shape("OpticalSurface"))
        E2 == lookupPhysicalVolume(E1, lar_name)
        E3 == lookupPhysicalVolume(E2, tpb_name)
        E4 == addSurface(E3, "bsurface_lar_tpb_" \o tpb_name, lar_name, tpb_name,
                         "surface_lar_to_tpb")
    IN  addSurface(E4, "bsurface_tpb_lar_" \o tpb_name, tpb_name, lar_name,
                   "surface_lar_to_tpb")

\* mutant: the border to the core reuses the optical surface of the coating
set_fiber_core_surface_mut(E, tpb_name, core_name) ==
    LET E2 == lookupPhysicalVolume(E, core_name)
        E3 == lookupPhysicalVolume(E2, tpb_name)
    IN  addSurface(E3, "bsurface_tpb_fiber", tpb_name, core_name,
                   "surface_lar_to_tpb")

set_fiber_core_surface(E, tpb_name, core_name) ==
    LET E1 == addSolid(E, "surface_to_fiber_core", Shape("OpticalSurface"))
        E2 == lookupPhysicalVolume(E1, core_name)
        E3 == lookupPhysicalVolume(E2, tpb_name)
    IN  addSurface(E3, "bsurface_tpb_fiber", tpb_name, core_name,
                   "surface_to_fiber_core")

\* pygeomhpges.make_hpge(hpge_meta, reg): a solid and a logical volume named
\* after the record; the solid keeps the enrichment of the record it was made from
make_hpge(E, name, enrichment) ==
    addLogicalVolume(
        addSolid(E, name, [kind |-> "hpge", radius |-> << >>, height |-> << >>,
                           enrichment |-> enrichment]),
        name, name, "germanium")

\* mutant: a missing enrichment is left as it is
default_enrichment_mut(E, key) == E

\* the enrichment default of build_strings: the record is changed in place
default_enrichment(E, key) ==
    IF Ok(E) /\ E.store[key] = EnrichmentNone
    THEN [E EXCEPT !.store[key] = DefaultEnrichment] ELSE E

\* one pass of the loop of build_strings, for the entry hpge with index uid
build_strings_hpge(E, lar_lv, hpge, uid, meta, lar_height) ==
    LET name  == hpge.name
        z_pos == Half(lar_height) + hpge.pplus_pos_from_lar_center
        key   == RecordKey(meta, name)
        E1 == diodes_getitem(getitem(E, hpge.pplus_pos_from_lar_center), meta, name)
        E2 == default_enrichment(E1, key)
        E3 == make_hpge(E2, name,
                        IF Ok(E2) THEN E2.store[key] ELSE EnrichmentNone)
        E4 == _place_pv(E3, name, name, lar_lv, z_pos)
        E5 == lookupPhysicalVolume(E4, name)
        E6 == setActiveDetector(E5, name, "germanium", uid,
                                IF Ok(E5) THEN E5.store[key] ELSE EnrichmentNone)
    IN  Then(E3, Then(E6, set_germanium_reflectivity(E6, name, "lar")))

RECURSIVE build_strings_loop(_, _, _, _, _, _)
\* the passes of the loop from list index uid on (enumerate counts from 0)
build_strings_loop(E, lar_lv, hpges, uid, meta, lar_height) ==
    IF uid >= Len(hpges) THEN E
    ELSE LET E1 == build_strings_hpge(E, lar_lv, hpges[uid + 1], uid, meta,
                                      lar_height)
         IN  Then(E1, build_strings_loop(E1, lar_lv, hpges, uid + 1, meta,
                                         lar_height))

build_strings(E, lar_lv, hpges, meta, lar_height, fiber_shroud) ==
    LET E1 == build_strings_loop(E, lar_lv, hpges, 0, meta, lar_height)
    IN  IF ~Ok(E1) THEN E1
        ELSE IF fiber_shroud.present
        THEN LET E2 == build_fiber_shroud(E1, DefaultShroudHeight, DefaultShroudRadius)
                 E3 == _place_pv(getitem(E2, fiber_shroud.center_pos_from_lar_center),
                                 "fiber_shroud", "tpb_coating", lar_lv,
                                 Half(lar_height)
                                     + fiber_shroud.center_pos_from_lar_center)
                 E4 == set_tpb_surface(E3, "fiber_shroud", "lar")
             IN  Then(E2, Then(E3, Then(E4,
                     set_fiber_core_surface(E4, "fiber_shroud", "fiber_core"))))
        ELSE E1

----------------------------------------------------------------------------
(* source.py and cavern.py *)

\* source.py:14  default source_height = 5 mm
SourceHeight == 5 * MM

\* source.py:15  default source_radius = 2 mm
SourceRadius == 2 * MM

build_source(E, world_lv, radius, z_pos) ==
    LET E1 == addSolid(E, "source", Tubs(0, SourceRadius, SourceHeight))
        E2 == addLogicalVolume(E1, "source", "source", "G4_Fe")
    IN  addPhysicalVolume(E2, "source", "source", world_lv, radius, z_pos)

\* cavern.py:73  the cavern is placed 1.5 m above the world origin
CavernZ == 1500 * MM

construct_cavern(E, inner_radius, outer_radius, mat, world_lv) ==
    LET E1 == addSolid(E, "upper_cavern", Shape("Sphere"))
        E2 == addSolid(E1, "lowercavern1", Shape("Tubs"))
        E3 == addSolid(E2, "lowercavern2", Shape("Tubs"))
        E4 == addSolid(E3, "lower_cavern", Shape("Subtraction"))
        E5 == addSolid(E4, "cavern", Shape("Union"))
        E6 == addLogicalVolume(E5, "cavern", "cavern", mat)
    IN  addPhysicalVolume(E6, "cavern", "cavern", world_lv, 0, CavernZ)

----------------------------------------------------------------------------
(* fibers_360.py: the 360 degree fiber shroud with its SiPMs *)

\* a fiber shroud has at most MaxModules modules (build_fiber_shroud has six,
\* fibers_360.py:90, all built by the same loop)
MaxModules == 2

\* fibers_360.py:79-91  the names build_fiber_shroud gives to its modules
DefaultFibers ==
    [count |-> MaxModules, name_prefix |-> "IB", channel_top_prefix |-> "sipm_top_",
     channel_bottom_prefix |-> "sipm_bot_"]

\* the channel-name prefixes of the configurations
ChannelPrefixes == {"sipm_top_", "sipm_bot_", "sipm_a_top_", "sipm_a_bot_", "ch_top_", "ch_bot_"}

\* pv.name.startswith("sipm_"), over the names the modules can have
startswith_sipm(name) ==
    name \in {p \o ToString(i) : p \in ChannelPrefixes \ {"ch_top_", "ch_bot_"},
                                 i \in 0..(MaxModules - 1)}

\* one part of a module: a solid, its logical volume and its placement
module_part(E, name, mother_lv) ==
    _place_pv(addLogicalVolume(addSolid(E, name, Shape("Tubs")), name, name,
                               "module"),
              name, name, mother_lv, 0)

\* ModuleFactorySingleFibers.create_module(module, container): the fibers of the
\* module and its top and bottom SiPM, placed in the mother of the container
create_module(E, module, container) ==
    LET E1 == module_part(E, module.name, container.mother_lv)
        E2 == module_part(E1, module.channel_top_name, container.mother_lv)
    IN  Then(E1, Then(E2, module_part(E2, module.channel_bottom_name,
                                      container.mother_lv)))

RECURSIVE create_modules(_, _, _, _)
\* the loop over the modules, from the i-th on
create_modules(E, modules, i, container) ==
    IF i > Len(modules) THEN E
    ELSE LET E1 == create_module(E, modules[i], container)
         IN  Then(E1, create_modules(E1, modules, i + 1, container))

\* the dictionary both functions return: every physical volume of the registry
\* whose name starts with sipm_
sipm_volumes(r) == {n \in DOMAIN r.physicalVolumeDict : startswith_sipm(n)}

\* fibers_360.build_fiber_shroud_from_config(registry, lar_pv, materials, config)
build_fiber_shroud_from_config(E, lar_pv, fiber_cfg) ==
    LET container == [mother_lv |-> E.reg.physicalVolumeDict[lar_pv].lv,
                      mother_pv |-> lar_pv]
        E1 == [E EXCEPT !.reg._world = lar_pv]
        modules == [i \in 1..fiber_cfg.count |->
                       [name |-> fiber_cfg.name_prefix \o ToString(i - 1),
                        channel_top_name |->
                            fiber_cfg.channel_top_prefix \o ToString(i - 1),
                        channel_bottom_name |->
                            fiber_cfg.channel_bottom_prefix \o ToString(i - 1)]]
    IN  create_modules(E1, modules, 1, container)

\* fibers_360.build_fiber_shroud(registry, lar_pv, hpge_string, materials): the
\* same steps with the module names of fibers_360.py:79-91
fibers_360_build_fiber_shroud(E, lar_pv) ==
    build_fiber_shroud_from_config(E, lar_pv, DefaultFibers)

----------------------------------------------------------------------------
(* core.py: construct(), one action for each of its steps *)

\* the names a finished call hands to its caller
RegistryNames(r) ==
    [lvs |-> DOMAIN r.logicalVolumeDict, pvs |-> DOMAIN r.physicalVolumeDict]

Running == [reg |-> reg, err |-> err, store |-> store]

\* PublicMetadataProxy.__init__(self): the constructor takes no argument
PublicMetadataProxy(args) ==
    IF Len(args) # 0 THEN "TypeError" ELSE "none"

\* the names handed to PublicMetadataProxy at core.py:91: the configured
\* detectors that extra_detectors does not hold
PublicDets(cfg, extra) ==
    LET hpges == IF cfg.given THEN cfg.hpges ELSE << >>
    IN  SelectSeq([i \in 1..Len(hpges) |-> hpges[i].name],
                  LAMBDA n : ~extra.given \/ n \notin extra.names)

\* mutant: a key of both mappings keeps the value of base
merge_configs_mut(base, extra) ==
    LET merged == IF extra.given THEN base @@ extra.records ELSE base
    IN  [shape |-> "AttrsDict", names |-> DOMAIN merged, records |-> merged]

\* utils.merge_configs(base, extra): a flat mapping of detector names to
\* records, holding the keys of both, with the record of extra for a key of both
merge_configs(base, extra) ==
    LET merged == IF extra.given THEN extra.records @@ base ELSE base
    IN  [shape |-> "AttrsDict", names |-> DOMAIN merged, records |-> merged]

\* dict(lmeta.hardware.detectors.germanium.diodes): the records by detector name
DiodesDict == [n \in DOMAIN store \cap DetNames |-> store[n]]

\* the variables construct() never assigns
ConstructFrame == UNCHANGED <<cryostat_meta, profile, config, public_geometry, internal_ok>>

\* a step of construct() ends in the next position, or in "failed" with the exception
StepTo(E, next, step) ==
    /\ reg' = E.reg
    /\ err' = E.err
    /\ store' = E.store
    /\ pc' = IF Ok(E) THEN next ELSE "failed"
    /\ history' = IF Ok(E) THEN history
                  ELSE Append(history, [ok |-> FALSE, err |-> E.err, at |-> step,
                                        names |-> RegistryNames(NoRegistry)])

\* core.py:71-99: the metadata source is resolved before anything is built
Construct_ResolveMetadata ==
    /\ pc = "construct_call"
    /\ LET lmeta_none == public_geometry \/ ~internal_ok
           e == IF lmeta_none /\ ~public_geometry THEN "RuntimeError"
                ELSE IF lmeta_none
                THEN PublicMetadataProxy(<<PublicDets(config, call.extra_detectors)>>)
                ELSE "none"
       IN  /\ StepTo(Raise(Running, e), "resolved", "metadata")
           /\ call' = [call EXCEPT !.consulted_internal = ~public_geometry,
                                   !.det_meta = merge_configs(DiodesDict,
                                                              call.extra_detectors)]
    /\ ConstructFrame

\* core.py:101-117: the registry and the world volume
Construct_CreateWorld ==
    /\ pc = "resolved"
    /\ LET E0 == [Running EXCEPT !.reg = NewRegistry]
           E1 == addSolid(E0, "world", Shape("Box"))
           E2 == addLogicalVolume(E1, "world", "world", "G4_Galactic")
           E3 == IF Ok(E2) THEN [E2 EXCEPT !.reg.worldVolume = "world"] ELSE E2
       IN  /\ StepTo(E3, "world", "world")
           /\ call' = [call EXCEPT !.world_lv = "world"]
    /\ ConstructFrame

\* mutant: lar_height is the whole height of the vessel, the gas included
Construct_BuildCryostat_mut ==
    /\ pc = "world"
    /\ LET m  == cryostat_meta
           E1 == build_cryostat(Running, m, call.world_lv)
           E2 == lookupLogicalVolume(E1, "lar")
       IN  /\ StepTo(E2, "cryostat", "cryostat")
           /\ call' = [call EXCEPT
                  !.lar_lv = "lar",
                  !.lar_height = m.inner.lower.height_in_mm + m.inner.upper.height_in_mm,
                  !.lar_offset = m.inner.lower.thickness_in_mm
                                     - Half(m.inner.lower.height_in_mm
                                            + m.inner.upper.height_in_mm)]
    /\ ConstructFrame

\* core.py:119-133: the cryostat, the lar handle, lar_height and lar_offset
Construct_BuildCryostat ==
    /\ pc = "world"
    /\ LET m  == cryostat_meta
           E1 == build_cryostat(Running, m, call.world_lv)
           E2 == lookupLogicalVolume(E1, "lar")
       IN  /\ StepTo(E2, "cryostat", "cryostat")
           /\ call' = [call EXCEPT
                  !.lar_lv = "lar",
                  !.lar_height = (m.inner.lower.height_in_mm + m.inner.upper.height_in_mm)
                                     - m.gas_argon.height_in_mm,
                  !.lar_offset = m.inner.lower.thickness_in_mm
                                     - Half(m.inner.lower.height_in_mm
                                            + m.inner.upper.height_in_mm)]
    /\ ConstructFrame

\* core.py:134-143: detectors and fiber shroud
Construct_BuildStrings ==
    /\ pc = "cryostat"
    /\ StepTo(build_strings(Running, call.lar_lv, config.hpges, call.det_meta,
                            call.lar_height, config.fiber_shroud),
              "strings", "strings")
    /\ UNCHANGED call
    /\ ConstructFrame

\* mutant: the source is built right after the cryostat, before the strings
Construct_BuildSource_mut ==
    /\ pc = "cryostat"
    /\ LET m == cryostat_meta
           E == IF config.source.present
                THEN build_source(getitem(Running, config.source.pos_from_lar_center),
                         call.world_lv,
                         m.outer.radius_in_mm + Half(m.lead.air_gap_in_mm),
                         config.source.pos_from_lar_center + Half(call.lar_height)
                             + call.lar_offset)
                ELSE Running
       IN  StepTo(E, "source", "source")
    /\ UNCHANGED call
    /\ ConstructFrame

\* core.py:145-152: the source, when the configuration has the key
Construct_BuildSource ==
    /\ pc = "strings"
    /\ LET m == cryostat_meta
           E == IF config.source.present
                THEN build_source(getitem(Running, config.source.pos_from_lar_center),
                         call.world_lv,
                         m.outer.radius_in_mm + Half(m.lead.air_gap_in_mm),
                         config.source.pos_from_lar_center + Half(call.lar_height)
                             + call.lar_offset)
                ELSE Running
       IN  StepTo(E, "source", "source")
    /\ UNCHANGED call
    /\ ConstructFrame

\* core.py:154-161: the cavern, when the configuration has the key
Construct_BuildCavern ==
    /\ pc = "source"
    /\ LET E == IF config.cavern.present
                THEN construct_cavern(
                         getitem(getitem(Running, config.cavern.inner_radius_in_mm),
                                 config.cavern.outer_radius_in_mm),
                         config.cavern.inner_radius_in_mm,
                         config.cavern.outer_radius_in_mm, "rock", call.world_lv)
                ELSE Running
       IN  StepTo(E, "cavern", "cavern")
    /\ UNCHANGED call
    /\ ConstructFrame

\* core.py:163: the registry is returned
Construct_Return ==
    /\ pc = "cavern"
    /\ pc' = "returned"
    /\ history' = Append(history, [ok |-> TRUE, err |-> "none", at |-> "return",
                                   names |-> RegistryNames(reg)])
    /\ UNCHANGED <<reg, err, store, call>>
    /\ ConstructFrame

\* what a call of construct() starts with
ConstructCall(extra) ==
    [op |-> "construct", extra_detectors |-> extra, consulted_internal |-> FALSE,
     det_meta |-> [shape |-> "none", names |-> {}, records |-> EmptyMap],
     world_lv |-> "none",
     lar_lv |-> "none", lar_height |-> 0, lar_offset |-> 0]

\* the caller calls construct() a second time, with the same arguments and
\* the same metadata store
Construct_Again ==
    /\ pc \in {"returned", "failed"}
    /\ Len(history) = 1
    /\ pc' = "construct_call"
    /\ reg' = NoRegistry
    /\ err' = "none"
    /\ call' = ConstructCall(call.extra_detectors)
    /\ UNCHANGED <<store, history>>
    /\ ConstructFrame

----------------------------------------------------------------------------
(* The inputs of construct() *)

\* detector lists hold at most MaxDets entries
MaxDets == 3

\* the offset configured for the i-th list entry: 120 mm, 230 mm, ...
PplusPos(i) == (10 + 110 * i) * MM

HpgeLists ==
    UNION {{[i \in 1..n |-> [name |-> f[i], pplus_pos_from_lar_center |-> PplusPos(i)]] :
               f \in [1..n -> DetNames]} : n \in 0..MaxDets}
    \cup {<<[name |-> n, pplus_pos_from_lar_center |-> Missing]>> : n \in DetNames}

SourceConfigs ==
    {[present |-> FALSE, pos_from_lar_center |-> 0],
     [present |-> TRUE, pos_from_lar_center |-> 150 * MM],
     [present |-> TRUE, pos_from_lar_center |-> Missing]}

\* the fiber_shroud section: absent, with its position only, without its
\* position, or with the height and radius of the docstring of construct()
ShroudConfigs ==
    {[present |-> FALSE, center_pos_from_lar_center |-> 0,
      height_in_mm |-> Missing, radius_in_mm |-> Missing],
     [present |-> TRUE, center_pos_from_lar_center |-> 0,
      height_in_mm |-> Missing, radius_in_mm |-> Missing],
     [present |-> TRUE, center_pos_from_lar_center |-> Missing,
      height_in_mm |-> Missing, radius_in_mm |-> Missing],
     [present |-> TRUE, center_pos_from_lar_center |-> 120 * MM,
      height_in_mm |-> 1200 * MM, radius_in_mm |-> 200 * MM]}

CavernConfigs ==
    {[present |-> FALSE, inner_radius_in_mm |-> 0, outer_radius_in_mm |-> 0],
     [present |-> TRUE, inner_radius_in_mm |-> 5000 * MM,
      outer_radius_in_mm |-> 12000 * MM],
     [present |-> TRUE, inner_radius_in_mm |-> 5000 * MM,
      outer_radius_in_mm |-> Missing]}

\* config = None
NoneConfig ==
    [given |-> FALSE, hpges |-> << >>,
     source |-> [present |-> FALSE, pos_from_lar_center |-> 0],
     fiber_shroud |-> [present |-> FALSE, center_pos_from_lar_center |-> 0,
                       height_in_mm |-> Missing, radius_in_mm |-> Missing],
     cavern |-> [present |-> FALSE, inner_radius_in_mm |-> 0, outer_radius_in_mm |-> 0]]

Configs ==
    {NoneConfig} \cup
    [given : {TRUE}, hpges : HpgeLists, source : SourceConfigs,
     fiber_shroud : ShroudConfigs, cavern : CavernConfigs]

\* the enrichment of the records of extra_detectors
ExtraEnrichment == 60

\* extra_detectors: None, or a database holding a detector of the metadata
\* store and one of its own (tests/configs/extra)
ExtraDetectors ==
    {[given |-> FALSE, names |-> {}, records |-> EmptyMap],
     [given |-> TRUE, names |-> {"B09999A", "bege"},
      records |-> [n \in {"B09999A", "bege"} |-> ExtraEnrichment]]}

EnrichmentVals == {EnrichmentNone, 75}

\* the metadata stores: an enrichment value, or None, for every record
Stores == [DetNames \cup Templates -> EnrichmentVals]

UniformStores == {[k \in DetNames \cup Templates |-> v] : v \in EnrichmentVals}

\* the stores of the runs: all records alike, or one detector and its template
\* without an enrichment among records that have one
MixedStores ==
    UniformStores \cup
    {[k \in DetNames \cup Templates |->
         IF k \in {"V09999A", TemplateOf("V09999A")} THEN EnrichmentNone ELSE 75]}

MetaOf(r, lt, ut, h, g) ==
    [inner     |-> [radius_in_mm |-> r,
                    upper |-> [thickness_in_mm |-> ut, height_in_mm |-> h],
                    lower |-> [thickness_in_mm |-> lt, height_in_mm |-> h]],
     outer     |-> [radius_in_mm |-> r + h, height_in_mm |-> 4 * h,
                    thickness_in_mm |-> lt],
     top       |-> [height_in_mm |-> lt, radius_in_mm |-> r + h],
     gas_argon |-> [height_in_mm |-> g],
     lead      |-> [air_gap_in_mm |-> g, thickness_in_mm |-> h]]

\* the dimension sets construct() loads from its packaged cryostat.yaml
ConstructMetas ==
    {MetaOf(TOL * MaxDim, lt, TOL, TOL * MaxDim, TOL) : lt \in {TOL, 2 * TOL}}
    \cup {[MetaOf(TOL * MaxDim, TOL, TOL, TOL * MaxDim, TOL)
               EXCEPT !.lead.air_gap_in_mm = Missing]}

\* the dimension sets the assemblers are run with; in the last one the gas is
\* higher than the upper part of the vessel
AssemblyMetas ==
    {MetaOf(TOL * MaxDim, lt, ut, TOL * MaxDim, TOL) :
         lt \in {TOL, 2 * TOL}, ut \in {TOL, 4 * TOL}}
    \cup {MetaOf(TOL * MaxDim, 4 * TOL, TOL, TOL * MaxDim, 4 * TOL)}
    \cup {[MetaOf(TOL * MaxDim, TOL, TOL, TOL * MaxDim, TOL)
               EXCEPT !.lead.air_gap_in_mm = Missing]}

Init ==
    /\ pc = "construct_call"
    /\ cryostat_meta \in ConstructMetas
    /\ profile = NoProfile
    /\ config \in Configs
    /\ public_geometry \in BOOLEAN
    /\ internal_ok \in BOOLEAN
    /\ store \in UniformStores
    /\ reg = NoRegistry
    /\ err = "none"
    /\ call \in {ConstructCall(x) : x \in ExtraDetectors}
    /\ history = << >>

Next ==
    \/ Construct_ResolveMetadata
    \/ Construct_CreateWorld
    \/ Construct_BuildCryostat
    \/ Construct_BuildStrings
    \/ Construct_BuildSource
    \/ Construct_BuildCavern
    \/ Construct_Return
    \/ Construct_Again

Spec == Init /\ [][Next]_vars

----------------------------------------------------------------------------
(* The assemblers called directly on a registry, as the tests of cryo.py do: *)
(* a registry with a world volume, then build_cryostat, then build_strings,  *)
(* and a surface annotation step called at any of these stages. The registry *)
(* is the caller's: it keeps what a call added before it raised.             *)

\* a call starts with the caller's registry and no exception
Fresh == [reg |-> reg, err |-> "none", store |-> store]

\* the metadata sources build_strings is declared to take (strings.py:191)
MetaSources == {[shape |-> "LegendMetadata"], [shape |-> "PublicMetadataProxy"]}

\* the physical-volume names the annotation steps are called with
PVArgNames == {"lar", "inner_cryostat", "fiber_shroud", "fiber_core", "ghost"}

LibFrame == UNCHANGED <<cryostat_meta, profile, config, public_geometry, internal_ok,
                        history>>

LibDone(E, next, c) ==
    /\ reg' = E.reg
    /\ err' = E.err
    /\ store' = E.store
    /\ pc' = next
    /\ call' = c
    /\ LibFrame

\* tests/test_cryo.py:21-25: a registry holding only a world volume
Lib_NewRegistry ==
    /\ pc = "lib_start"
    /\ LET E0 == [Fresh EXCEPT !.reg = NewRegistry]
           E1 == addSolid(E0, "World_s", Shape("Tubs"))
           E2 == addLogicalVolume(E1, "World", "World_s", "G4_Galactic")
       IN  LibDone([E2 EXCEPT !.reg.worldVolume = "World"], "lib_world",
                   [op |-> "Registry", before |-> reg])

\* tests/test_cryo.py:31: build_cryostat on that registry
Lib_build_cryostat ==
    /\ pc = "lib_world"
    /\ LibDone(build_cryostat(Fresh, cryostat_meta, reg.worldVolume), "lib_cryostat",
               [op |-> "build_cryostat", before |-> reg])

\* build_strings on the registry that holds the cryostat
Lib_build_strings ==
    /\ pc = "lib_cryostat"
    /\ \E hpges \in HpgeLists, fiber_shroud \in ShroudConfigs, meta \in MetaSources :
         LET m == cryostat_meta
             lar_height == (m.inner.lower.height_in_mm + m.inner.upper.height_in_mm)
                               - m.gas_argon.height_in_mm
         IN  LibDone(build_strings(Fresh, "lar", hpges, meta, lar_height, fiber_shroud),
                     "lib_strings",
                     [op |-> "build_strings", hpges |-> hpges, meta |-> meta,
                      fiber_shroud |-> fiber_shroud, before |-> reg,
                      store_before |-> store])

AnnotationStage == pc \in {"lib_world", "lib_cryostat", "lib_strings"}

Lib_set_steel_reflectivity ==
    /\ AnnotationStage
    /\ \E cryostat_name \in PVArgNames, lar_name \in PVArgNames :
         LibDone(set_steel_reflectivity(Fresh, cryostat_name, lar_name), "lib_annotated",
                 [op |-> "set_steel_reflectivity", names |-> {cryostat_name, lar_name},
                  surface |-> "surface_to_steel", before |-> reg])

Lib_set_germanium_reflectivity ==
    /\ AnnotationStage
    /\ \E hpge \in DOMAIN reg.physicalVolumeDict, lar_name \in PVArgNames :
         LibDone(set_germanium_reflectivity(Fresh, hpge, lar_name), "lib_annotated",
                 [op |-> "set_germanium_reflectivity", names |-> {lar_name},
                  surface |-> "surface_to_germanium", before |-> reg])

Lib_set_tpb_surface ==
    /\ AnnotationStage
    /\ \E tpb_name \in PVArgNames, lar_name \in PVArgNames :
         LibDone(set_tpb_surface(Fresh, tpb_name, lar_name), "lib_annotated",
                 [op |-> "set_tpb_surface", names |-> {tpb_name, lar_name},
                  surface |-> "surface_lar_to_tpb", before |-> reg])

Lib_set_fiber_core_surface ==
    /\ AnnotationStage
    /\ \E tpb_name \in PVArgNames, core_name \in PVArgNames :
         LibDone(set_fiber_core_surface(Fresh, tpb_name, core_name), "lib_annotated",
                 [op |-> "set_fiber_core_surface", names |-> {tpb_name, core_name},
                  surface |-> "surface_to_fiber_core", before |-> reg])

\* the fibers sections build_fiber_shroud_from_config is called with
FiberConfigs ==
    {[count |-> n, name_prefix |-> f[1], channel_top_prefix |-> f[2],
      channel_bottom_prefix |-> f[3]] :
         n \in 1..MaxModules,
         f \in {<<"IB", "sipm_top_", "sipm_bot_">>, <<"A", "sipm_a_top_", "sipm_a_bot_">>,
                <<"C", "ch_top_", "ch_bot_">>}}

\* the fiber functions are called on a registry that holds the lar, at most twice
FibersStage ==
    /\ "lar" \in DOMAIN reg.physicalVolumeDict
    /\ \/ pc = "lib_cryostat"
       \/ pc = "lib_fibers" /\ call.first

\* tests/scarf_pen_full_geometry.py:563: build_fiber_shroud on the placed lar
Lib_fibers_360_build_fiber_shroud ==
    /\ FibersStage
    /\ LET E == fibers_360_build_fiber_shroud(Fresh, "lar")
       IN  LibDone(E, "lib_fibers",
                   [op |-> "build_fiber_shroud_360", before |-> reg,
                    first |-> pc = "lib_cryostat", fibers |-> DefaultFibers,
                    returned |-> IF Ok(E) THEN sipm_volumes(E.reg) ELSE {}])

\* build_fiber_shroud_from_config on the placed lar
Lib_build_fiber_shroud_from_config ==
    /\ FibersStage
    /\ \E fiber_cfg \in FiberConfigs :
         LET E == build_fiber_shroud_from_config(Fresh, "lar", fiber_cfg)
         IN  LibDone(E, "lib_fibers",
                     [op |-> "build_fiber_shroud_from_config", before |-> reg,
                      first |-> pc = "lib_cryostat", fibers |-> fiber_cfg,
                      returned |-> IF Ok(E) THEN sipm_volumes(E.reg) ELSE {}])

LibInit ==
    /\ pc = "lib_start"
    /\ cryostat_meta \in AssemblyMetas
    /\ profile = NoProfile
    /\ config = NoneConfig
    /\ public_geometry = FALSE
    /\ internal_ok = FALSE
    /\ store \in MixedStores
    /\ reg = NoRegistry
    /\ err = "none"
    /\ call = NoCall
    /\ history = << >>

LibNext ==
    \/ Lib_NewRegistry
    \/ Lib_build_cryostat
    \/ Lib_build_strings
    \/ Lib_set_steel_reflectivity
    \/ Lib_set_germanium_reflectivity
    \/ Lib_set_tpb_surface
    \/ Lib_set_fiber_core_surface
    \/ Lib_fibers_360_build_fiber_shroud
    \/ Lib_build_fiber_shroud_from_config

SpecLibrary == LibInit /\ [][LibNext]_vars

----------------------------------------------------------------------------
(* Claims about construct() (checked under Spec) *)

Finished == pc \in {"returned", "failed"}

LastCall == history[Len(history)]

LVs == DOMAIN reg.logicalVolumeDict

PVs == DOMAIN reg.physicalVolumeDict

\* the metadata step does not end in the RuntimeError of core.py:81-83
GatePassed == public_geometry \/ internal_ok

\* a required key is missing: a position or radius of a configured section, or
\* a dimension of the cryostat
KeyMissing ==
    \/ \E i \in 1..Len(config.hpges) :
           config.hpges[i].pplus_pos_from_lar_center = Missing
    \/ config.source.present /\ config.source.pos_from_lar_center = Missing
    \/ config.fiber_shroud.present
           /\ config.fiber_shroud.center_pos_from_lar_center = Missing
    \/ config.cavern.present
           /\ Missing \in {config.cavern.inner_radius_in_mm,
                           config.cavern.outer_radius_in_mm}
    \/ cryostat_meta.lead.air_gap_in_mm = Missing

\* a metadata source is available and every required key is given
WellConfigured == GatePassed /\ ~KeyMissing

EmptyConfig(cfg) ==
    /\ cfg.hpges = << >>
    /\ ~cfg.source.present
    /\ ~cfg.fiber_shroud.present
    /\ ~cfg.cavern.present

\* C3: construct() fails with a fatal error when the internal metadata source is
\* unavailable and public_geometry is false, before any registry exists; with
\* public_geometry true the internal source is not consulted and construction
\* proceeds past the metadata step with the public substitute.
C3_MetadataGate ==
    /\ (~public_geometry /\ ~internal_ok /\ pc # "construct_call")
           => (pc = "failed" /\ err = "RuntimeError" /\ ~reg.exists)
    /\ (public_geometry /\ pc # "construct_call")
           => (~call.consulted_internal
               /\ ~(pc = "failed" /\ LastCall.at = "metadata"))

\* The part of C3 the code does keep: without public_geometry and without the
\* internal source the call ends in a RuntimeError and no registry was created.
C3_FatalBeforeRegistry ==
    (~public_geometry /\ ~internal_ok /\ pc # "construct_call")
        => (pc = "failed" /\ err = "RuntimeError" /\ ~reg.exists)

\* C4: construct() with an empty or None configuration and public_geometry = True
\* returns a registry with a world volume, the inner vessel, the lar, the outer
\* vessel and the lid, and no detector, source or cavern volume.
C4_EmptyConfigPublic ==
    (Finished /\ public_geometry /\ EmptyConfig(config) /\ ~KeyMissing)
        => /\ pc = "returned"
           /\ reg.worldVolume # "none"
           /\ {"inner_cryostat", "lar", "outer_cryostat", "cryostat_lid"} \subseteq LVs
           /\ {"inner_cryostat", "lar", "outer_cryostat", "cryostat_lid"} \subseteq PVs
           /\ (LVs \cup PVs) \cap (DetNames \cup {"source", "cavern"}) = {}

\* C5: construct() with one configured detector X, a metadata source being
\* available, completes and returns a registry holding a logical and a physical
\* volume named X, the physical volume placed in the lar logical volume.
C5_OneDetector ==
    (Finished /\ Len(config.hpges) = 1 /\ WellConfigured)
        => /\ pc = "returned"
           /\ config.hpges[1].name \in LVs
           /\ config.hpges[1].name \in PVs
           /\ reg.physicalVolumeDict[config.hpges[1].name].mother = "lar"

\* C7: when the configuration has the source key, construct() returns a registry
\* that holds a logical and a physical volume named source, placed directly in
\* the world.
C7_SourceUnderWorld ==
    (Finished /\ config.source.present /\ WellConfigured)
        => /\ pc = "returned"
           /\ "source" \in LVs
           /\ "source" \in PVs
           /\ reg.worldVolume = "world"
           /\ reg.physicalVolumeDict["source"].mother = reg.worldVolume

\* What the code keeps of C7: a registry that construct() does return for a
\* configuration with the source key holds the source, placed in the world.
C7_ReturnedSource ==
    (pc = "returned" /\ config.source.present)
        => /\ "source" \in LVs
           /\ "source" \in PVs
           /\ reg.worldVolume = "world"
           /\ reg.physicalVolumeDict["source"].mother = reg.worldVolume

C7_Witness ==
    /\ pc = "returned"
    /\ config.source.present
    /\ "source" \in PVs
    /\ reg.physicalVolumeDict["source"].z # 0

\* C8: when the configuration has the fiber_shroud key, construct() returns a
\* registry that holds a physical volume of the coating tube (fiber_shroud) and
\* one of the fiber-core tube (fiber_core), the latter tagged as an optical
\* active detector.
C8_FiberShroud ==
    (Finished /\ config.fiber_shroud.present /\ WellConfigured)
        => /\ pc = "returned"
           /\ {"fiber_shroud", "fiber_core"} \subseteq PVs
           /\ reg.physicalVolumeDict["fiber_shroud"].lv = "tpb_coating"
           /\ reg.physicalVolumeDict["fiber_core"].lv = "fiber_core"
           /\ reg.physicalVolumeDict["fiber_core"].pygeom_active_detector.kind = "optical"

\* What the code keeps of C8: a registry that construct() does return for a
\* configuration with the fiber_shroud key holds both tubes, the core tagged.
C8_ReturnedShroud ==
    (pc = "returned" /\ config.fiber_shroud.present)
        => /\ {"fiber_shroud", "fiber_core"} \subseteq PVs
           /\ reg.physicalVolumeDict["fiber_shroud"].lv = "tpb_coating"
           /\ reg.physicalVolumeDict["fiber_core"].lv = "fiber_core"
           /\ reg.physicalVolumeDict["fiber_core"].pygeom_active_detector.kind = "optical"

C8_Witness ==
    /\ pc = "returned"
    /\ config.fiber_shroud.present
    /\ "fiber_core" \in PVs
    /\ "bsurface_tpb_fiber" \in DOMAIN reg.surfaceDict

\* C9: two calls of construct() with the same configuration and metadata store
\* produce two registries with the same logical- and physical-volume names, also
\* when a configured detector has no enrichment fraction in the store.
C9_Idempotent ==
    (/\ Finished
     /\ Len(history) = 2
     /\ WellConfigured
     /\ config.hpges # << >>
     /\ store[config.hpges[1].name] = EnrichmentNone)
        => /\ history[1].ok
           /\ history[2].ok
           /\ history[1].names = history[2].names

\* the names of the configured detectors
Named(hpges) == {hpges[i].name : i \in 1..Len(hpges)}

CryostatVolumes ==
    {"inner_cryostat", "lar", "gaseous_argon", "outer_cryostat", "cryostat_lid",
     "lead_shield"}

\* the registry holds each optional subsystem exactly when its key is configured
SubsystemsAsConfigured ==
    /\ CryostatVolumes \subseteq (LVs \cap PVs)
    /\ \A n \in DetNames : (n \in LVs /\ n \in PVs) <=> n \in Named(config.hpges)
    /\ \A n \in DetNames : (n \in LVs \/ n \in PVs) => n \in Named(config.hpges)
    /\ ("source" \in LVs /\ "source" \in PVs) <=> config.source.present
    /\ ("source" \in LVs \/ "source" \in PVs) => config.source.present
    /\ ({"fiber_shroud", "fiber_core"} \subseteq PVs) <=> config.fiber_shroud.present
    /\ ({"fiber_shroud", "fiber_core"} \cap PVs # {}) => config.fiber_shroud.present
    /\ ("cavern" \in LVs /\ "cavern" \in PVs) <=> config.cavern.present
    /\ ("cavern" \in LVs \/ "cavern" \in PVs) => config.cavern.present
    /\ config.cavern.present => reg.physicalVolumeDict["cavern"].mother = "world"

\* C15: construct() returns a registry that holds each optional subsystem exactly
\* when its configuration key is present (detectors iff named in hpges, source,
\* fiber shroud and core, cavern placed in the world), and the cryostat volumes
\* in every case.
C15_SubsystemsIffConfigured ==
    (Finished /\ WellConfigured) => (pc = "returned" /\ SubsystemsAsConfigured)

\* What the code keeps of C15: a registry that construct() does return holds
\* each optional subsystem exactly when its key is configured.
C15_ReturnedSubsystems ==
    pc = "returned" => SubsystemsAsConfigured

C15_ReturnedWitness ==
    /\ pc = "returned"
    /\ config.cavern.present /\ ~config.source.present /\ config.fiber_shroud.present
    /\ "cavern" \in PVs /\ "source" \notin PVs

\* the metadata step of the running call has completed
MetadataResolved ==
    \/ pc \in {"resolved", "world", "cryostat", "strings", "source", "cavern",
               "returned"}
    \/ pc = "failed" /\ LastCall.at # "metadata"

\* C19: merge_configs(base, extra) returns a mapping whose keys are those of
\* both, with the value of extra for a key of extra and the value of base for a
\* key of base only, and base itself when extra is None; in construct() the
\* record of extra_detectors stands for the store's record of the same name.
C19_MergeOverrides ==
    MetadataResolved
        => LET extra  == call.extra_detectors
               merged == call.det_meta.records
           IN  /\ DOMAIN merged = DOMAIN DiodesDict \cup extra.names
               /\ \A k \in extra.names : merged[k] = extra.records[k]
               /\ \A k \in DOMAIN DiodesDict \ extra.names : merged[k] = DiodesDict[k]
               /\ ~extra.given => merged = DiodesDict

C19_Witness ==
    /\ MetadataResolved
    /\ call.extra_detectors.given
    /\ store["B09999A"] # ExtraEnrichment
    /\ call.det_meta.records["B09999A"] = ExtraEnrichment
    /\ call.det_meta.records["V09999A"] = store["V09999A"]
    /\ "bege" \in DOMAIN call.det_meta.records

\* the tube registered under name has the given height and is centred on the
\* given radius
TubeAsConfigured(name, height, radius) ==
    /\ name \in DOMAIN reg.solidDict
    /\ reg.solidDict[name].height = <<height>>
    /\ reg.solidDict[name].radius[1] + reg.solidDict[name].radius[2] = 2 * radius

\* C17: when the fiber_shroud section gives height_in_mm and radius_in_mm, the
\* coating tube and the fiber-core tube of the returned registry have that
\* height and are centred on that radius, and the shroud is placed in the lar at
\* the configured position.
C17_ConfiguredShroudSize ==
    (/\ pc = "returned"
     /\ config.fiber_shroud.present
     /\ config.fiber_shroud.height_in_mm # Missing
     /\ config.fiber_shroud.radius_in_mm # Missing)
        => /\ TubeAsConfigured("tpb_coating", config.fiber_shroud.height_in_mm,
                               config.fiber_shroud.radius_in_mm)
           /\ TubeAsConfigured("fiber_core", config.fiber_shroud.height_in_mm,
                               config.fiber_shroud.radius_in_mm)
           /\ reg.physicalVolumeDict["fiber_shroud"].z
                  = Half(call.lar_height) + config.fiber_shroud.center_pos_from_lar_center

\* What the code keeps of C17: both tubes have the default height and radius of
\* build_fiber_shroud, whatever the section gives, and the shroud is placed at
\* the configured position.
C17_DefaultShroudSize ==
    (pc = "returned" /\ config.fiber_shroud.present)
        => /\ TubeAsConfigured("tpb_coating", DefaultShroudHeight, DefaultShroudRadius)
           /\ TubeAsConfigured("fiber_core", DefaultShroudHeight, DefaultShroudRadius)
           /\ reg.physicalVolumeDict["fiber_shroud"].z
                  = Half(call.lar_height) + config.fiber_shroud.center_pos_from_lar_center

\* C16: when a required key is missing, construct() ends in an exception, no
\* default stands in for the missing value, and no registry, complete or
\* partial, is returned.
C16_MissingKeyIsFatal ==
    (Finished /\ KeyMissing)
        => /\ pc = "failed"
           /\ err # "none"
           /\ ~LastCall.ok
           /\ LastCall.names = RegistryNames(NoRegistry)

C16_Witness ==
    /\ pc = "failed"
    /\ config.source.present /\ config.source.pos_from_lar_center = Missing
    /\ cryostat_meta.lead.air_gap_in_mm # Missing
    /\ err = "KeyError"
    /\ LastCall.at = "source"
    /\ "lar" \in PVs /\ "source" \notin PVs
    /\ LastCall.names = RegistryNames(NoRegistry)

\* the positions of construct() in the order of core.py, each with its successor
CodeOrder ==
    {<<"construct_call", "resolved">>, <<"resolved", "world">>,
     <<"world", "cryostat">>, <<"cryostat", "strings">>, <<"strings", "source">>,
     <<"source", "cavern">>, <<"cavern", "returned">>}

\* a step of construct() goes to the next position of the order, or fails; a
\* step that builds into the registry finds the volumes it depends on
StepOrder ==
    /\ pc' # pc
          => \/ <<pc, pc'>> \in CodeOrder
             \/ pc' = "failed" /\ pc \notin {"returned", "failed"}
             \/ pc' = "construct_call" /\ pc \in {"returned", "failed"}
    /\ (pc \in {"world", "cryostat", "strings", "source"} /\ reg' # reg)
          => (reg.exists /\ reg.worldVolume = "world" /\ "world" \in LVs)
    /\ (pc = "cryostat" /\ reg' # reg) => ("lar" \in LVs /\ "lar" \in PVs)
    /\ reg'.exists
          => /\ \A n \in DOMAIN reg'.physicalVolumeDict :
                    reg'.physicalVolumeDict[n].mother \in DOMAIN reg'.logicalVolumeDict
             /\ \A n \in DOMAIN reg'.surfaceDict :
                    {reg'.surfaceDict[n].pv1, reg'.surfaceDict[n].pv2}
                        \subseteq DOMAIN reg'.physicalVolumeDict

\* C14: the steps of construct() run in the order create registry and world,
\* resolve metadata, build cryostat, extract the lar handle, build strings, build
\* source, build cavern, return; no step starts before the volumes it depends
\* on are in the registry.
C14_Original ==
    [][StepOrder /\ (pc' = "resolved" => (reg'.exists /\ reg'.worldVolume = "world"))]_vars

\* C14 amended: the metadata source is resolved first, and the registry and
\* the world are created only after it; from there on the order is build
\* cryostat, extract the lar handle, build strings, build source, build cavern,
\* return, and every step finds the volumes it depends on in the registry.
C14_StepOrder ==
    [][StepOrder /\ (pc' = "resolved" => ~reg'.exists)
                 /\ (pc' = "world" => (~reg.exists /\ reg'.worldVolume = "world"))]_vars

C14_Witness ==
    /\ pc = "returned"
    /\ config.fiber_shroud.present /\ config.source.present /\ config.cavern.present
    /\ {"fiber_shroud", "source", "cavern"} \subseteq PVs
    /\ call.lar_lv = "lar"

----------------------------------------------------------------------------
(* Claims about the assemblers called directly (checked under SpecLibrary) *)

\* the i-th entry is the first one of its name in the list
FirstOfName(hpges, i) == \A j \in 1..(i - 1) : hpges[j].name # hpges[i].name

\* the names of the list are pairwise different and every entry has its position
DistinctNames(hpges) ==
    \A i \in 1..Len(hpges) :
        FirstOfName(hpges, i) /\ hpges[i].pplus_pos_from_lar_center # Missing

\* C6: for every detector list, the i-th entry (counting from 0) is tagged as a
\* germanium active detector with integer id i.
C6_EveryEntryTagged ==
    (pc = "lib_strings" /\ DistinctNames(call.hpges))
        => \A i \in 1..Len(call.hpges) :
             LET name == call.hpges[i].name IN
             /\ name \in PVs
             /\ reg.physicalVolumeDict[name].pygeom_active_detector.kind = "germanium"
             /\ reg.physicalVolumeDict[name].pygeom_active_detector.uid = i - 1

\* What the code keeps of C6: an entry that was placed carries the germanium tag
\* with its list position as id, and every entry is placed when build_strings
\* returns.
C6_ListPositionIds ==
    (pc = "lib_strings")
        => \A i \in 1..Len(call.hpges) :
             LET name == call.hpges[i].name IN
             FirstOfName(call.hpges, i)
                 => /\ name \in PVs
                        => /\ reg.physicalVolumeDict[name].pygeom_active_detector.kind
                                  = "germanium"
                           /\ reg.physicalVolumeDict[name].pygeom_active_detector.uid
                                  = i - 1
                    /\ err = "none" => name \in PVs

C6_Witness ==
    /\ pc = "lib_strings"
    /\ Len(call.hpges) = 2
    /\ call.hpges[1].name # call.hpges[2].name
    /\ call.hpges[2].name \in PVs
    /\ reg.physicalVolumeDict[call.hpges[1].name].pygeom_active_detector.uid = 0
    /\ reg.physicalVolumeDict[call.hpges[2].name].pygeom_active_detector.uid = 1

\* an annotation step was called with a name that is not placed
CalledWithMissingName ==
    /\ pc = "lib_annotated"
    /\ call.names \ DOMAIN call.before.physicalVolumeDict # {}

\* C10: an annotation step called with a name that is not placed fails
\* with a lookup error and leaves no surface entry (border surface or optical
\* surface model) the registry did not hold before.
C10_Original ==
    CalledWithMissingName
        => /\ err = "KeyError"
           /\ reg.surfaceDict = call.before.surfaceDict
           /\ DOMAIN reg.solidDict = DOMAIN call.before.solidDict

\* What the code keeps of C10: the step fails, with a lookup error when its
\* optical surface model is not yet registered and with a duplicate-name error
\* when it is; the border surfaces, logical and physical volumes are as before
\* the call; the one entry a failed call leaves is its optical surface model.
C10_NoDanglingBorder ==
    CalledWithMissingName
        => /\ err = (IF call.surface \in DOMAIN call.before.solidDict
                     THEN "IdenticalNameError" ELSE "KeyError")
           /\ reg.surfaceDict = call.before.surfaceDict
           /\ reg.physicalVolumeDict = call.before.physicalVolumeDict
           /\ reg.logicalVolumeDict = call.before.logicalVolumeDict
           /\ DOMAIN reg.solidDict = DOMAIN call.before.solidDict \cup {call.surface}

C10_Witness ==
    /\ CalledWithMissingName
    /\ call.op = "set_tpb_surface"
    /\ "lar" \in call.names
    /\ "lar" \in DOMAIN call.before.physicalVolumeDict
    /\ err = "KeyError"
    /\ "surface_lar_to_tpb" \in DOMAIN reg.solidDict
    /\ "surface_lar_to_tpb" \notin DOMAIN call.before.solidDict

\* a placement, without the tag that is attached to it afterwards
Placement(pv) == [lv |-> pv.lv, mother |-> pv.mother, y |-> pv.y, z |-> pv.z]

\* a step on one registry keeps every entry it held, under its name, as it was
KeepsEntries ==
    (reg.exists /\ reg'.exists)
        => /\ \A n \in DOMAIN reg.solidDict :
                  n \in DOMAIN reg'.solidDict /\ reg'.solidDict[n] = reg.solidDict[n]
           /\ \A n \in DOMAIN reg.logicalVolumeDict :
                  /\ n \in DOMAIN reg'.logicalVolumeDict
                  /\ reg'.logicalVolumeDict[n] = reg.logicalVolumeDict[n]
           /\ \A n \in DOMAIN reg.physicalVolumeDict :
                  /\ n \in DOMAIN reg'.physicalVolumeDict
                  /\ Placement(reg'.physicalVolumeDict[n])
                         = Placement(reg.physicalVolumeDict[n])
           /\ \A n \in DOMAIN reg.surfaceDict :
                  n \in DOMAIN reg'.surfaceDict /\ reg'.surfaceDict[n] = reg.surfaceDict[n]

\* an annotation step whose optical surface model is already registered ends in
\* the duplicate-name error and leaves the registry as it was
DuplicateAborts ==
    (pc = "lib_annotated" /\ call.surface \in DOMAIN call.before.solidDict)
        => (err = "IdenticalNameError" /\ reg = call.before)

C18_TwoBorderSurfaces ==
    (pc = "lib_cryostat" /\ cryostat_meta.lead.air_gap_in_mm # Missing)
        => /\ err = "none"
           /\ call.before.surfaceDict = EmptyMap
           /\ DOMAIN reg.surfaceDict = {"bsurface_lar_cryostat", "bsurface_cryostat_lar"}
           /\ \A n \in DOMAIN reg.surfaceDict :
                  /\ {reg.surfaceDict[n].pv1, reg.surfaceDict[n].pv2}
                         = {"lar", "inner_cryostat"}
                  /\ {"lar", "inner_cryostat"} \subseteq PVs
                  /\ reg.surfaceDict[n].surface = "surface_to_steel"

C18_Witness ==
    /\ pc = "lib_cryostat"
    /\ err = "none"
    /\ DOMAIN call.before.physicalVolumeDict = {}
    /\ DOMAIN call.before.logicalVolumeDict = {"World"}
    /\ "bsurface_cryostat_lar" \in DOMAIN reg.surfaceDict
    /\ "lead_shield" \in PVs

\* the enrichment a record reaches the factory with: 0.9 for an unset one
Normalized(val) == IF val = EnrichmentNone THEN DefaultEnrichment ELSE val

\* C12: a detector record with an unset enrichment reaches make_hpge with the
\* enrichment 0.9, a record with a set enrichment reaches it with that value.
C12_DefaultFill ==
    (pc = "lib_strings")
        => \A i \in 1..Len(call.hpges) :
             LET name == call.hpges[i].name
                 key  == RecordKey(call.meta, name)
             IN  name \in DOMAIN reg.solidDict
                     => reg.solidDict[name].enrichment
                            = Normalized(call.store_before[key])

C12_Witness ==
    /\ pc = "lib_strings"
    /\ Len(call.hpges) >= 1
    /\ call.store_before[RecordKey(call.meta, call.hpges[1].name)] = EnrichmentNone
    /\ call.hpges[1].name \in DOMAIN reg.solidDict
    /\ reg.solidDict[call.hpges[1].name].enrichment = DefaultEnrichment

\* C20: defaulting a missing enrichment leaves the shared records alone: after
\* build_strings returns, the record the metadata source holds for each detector
\* of the call is as it was before the call, an unset enrichment still unset.
C20_NoSharedMutation ==
    (pc = "lib_strings" /\ err = "none")
        => \A i \in 1..Len(call.hpges) :
             LET key == RecordKey(call.meta, call.hpges[i].name)
             IN  store[key] = call.store_before[key]

\* the records of the call that had no enrichment have the default afterwards
C20_DefaultWrittenBack ==
    (pc = "lib_strings" /\ err = "none")
        => \A i \in 1..Len(call.hpges) :
             LET key == RecordKey(call.meta, call.hpges[i].name)
             IN  store[key] = Normalized(call.store_before[key])

\* build_cryostat has returned on the registry that held only the world
CryostatBuilt == pc = "lib_cryostat" /\ err = "none"

\* the wall thickness of the inner vessel at the i-th vertex of its profile:
\* the lower thickness up to the change in thickness, the upper one above it
WallThickness(m, i) ==
    IF i <= 3 THEN m.inner.lower.thickness_in_mm ELSE m.inner.upper.thickness_in_mm

\* the inner radius of the inner vessel at the i-th vertex of its profile
VesselInnerRadius(m, i) ==
    reg.solidDict["inner_cryostat"].radius[i] - WallThickness(m, i)

\* the top of the lar, in the frame of the inner vessel it is placed in
LarTop == reg.physicalVolumeDict["lar"].z + reg.solidDict["lar"].height[6]

\* C11: with the lar placed at inner.lower.thickness above the origin of the
\* inner vessel, the lar radius at every height is <= the inner radius of the
\* vessel at that height minus TOL, and the top of the lar is at least TOL below
\* the top of the vessel.
C11_Original ==
    CryostatBuilt
        => /\ reg.physicalVolumeDict["lar"].z = cryostat_meta.inner.lower.thickness_in_mm
           /\ \A i \in 2..5 :
                  reg.solidDict["lar"].radius[i]
                      <= VesselInnerRadius(cryostat_meta, i) - TOL
           /\ LarTop <= reg.solidDict["inner_cryostat"].height[6] - TOL

\* C11 amended: the lar radius at every height is <= the inner radius of the
\* vessel at that height (the vessel's profile radius minus its wall thickness
\* there) with no tolerance taken off radially, the bottom of the lar is the
\* lower thickness above the bottom of the vessel, the change in thickness is at
\* the same height for both, and the top of the lar is TOL below the top of the
\* vessel.
C11_LarInsideVessel ==
    CryostatBuilt
        => /\ reg.physicalVolumeDict["lar"].mother = "inner_cryostat"
           /\ reg.physicalVolumeDict["lar"].z = cryostat_meta.inner.lower.thickness_in_mm
           /\ Len(reg.solidDict["lar"].radius) = 6
           /\ \A i \in 2..5 :
                  reg.solidDict["lar"].radius[i] <= VesselInnerRadius(cryostat_meta, i)
           /\ \A i \in 1..2 :
                  reg.physicalVolumeDict["lar"].z + reg.solidDict["lar"].height[i]
                      = reg.solidDict["inner_cryostat"].height[i]
                            + cryostat_meta.inner.lower.thickness_in_mm
           /\ \A i \in 3..4 :
                  reg.physicalVolumeDict["lar"].z + reg.solidDict["lar"].height[i]
                      = reg.solidDict["inner_cryostat"].height[i]
           /\ LarTop = reg.solidDict["inner_cryostat"].height[6] - TOL

C11_Witness ==
    /\ CryostatBuilt
    /\ cryostat_meta.inner.upper.thickness_in_mm > cryostat_meta.inner.lower.thickness_in_mm
    /\ reg.solidDict["lar"].radius[4] < reg.solidDict["lar"].radius[2]
    /\ reg.solidDict["lar"].radius[2] = VesselInnerRadius(cryostat_meta, 2)
    /\ reg.physicalVolumeDict["lar"].z > 0

----------------------------------------------------------------------------
(* The dimension sets the profile generators are applied to *)

CryostatMetas ==
    [inner     : [radius_in_mm : DimVals,
                  upper : [thickness_in_mm : DimVals, height_in_mm : OtherVals],
                  lower : [thickness_in_mm : DimVals, height_in_mm : OtherVals]],
     outer     : [radius_in_mm : OtherVals, height_in_mm : OtherVals,
                  thickness_in_mm : OtherVals],
     top       : [height_in_mm : OtherVals, radius_in_mm : OtherVals],
     gas_argon : [height_in_mm : OtherVals],
     lead      : [air_gap_in_mm : OtherVals, thickness_in_mm : OtherVals]]

\* the variables a profile generator call leaves alone
ProfileFrame ==
    UNCHANGED <<cryostat_meta, config, public_geometry, internal_ok, store, reg,
                err, call, history>>

ProfileInit ==
    /\ pc = "profile_call"
    /\ cryostat_meta \in CryostatMetas
    /\ profile = NoProfile
    /\ config = NoneConfig
    /\ public_geometry = FALSE
    /\ internal_ok = FALSE
    /\ store = << >>
    /\ reg = NoRegistry
    /\ err = "none"
    /\ call = NoCall
    /\ history = << >>

Returned(name, p) == [name |-> name, radius |-> p.radius, height |-> p.height]

Call_inner_cryostat_profile ==
    /\ pc = "profile_call"
    /\ profile' = Returned("inner_cryostat", inner_cryostat_profile(cryostat_meta))
    /\ pc' = "profile_done"
    /\ ProfileFrame

Call_lar_profile ==
    /\ pc = "profile_call"
    /\ profile' = Returned("lar", lar_profile(cryostat_meta))
    /\ pc' = "profile_done"
    /\ ProfileFrame

Call_gaseous_argon_profile ==
    /\ pc = "profile_call"
    /\ profile' = Returned("gaseous_argon", gaseous_argon_profile(cryostat_meta))
    /\ pc' = "profile_done"
    /\ ProfileFrame

Call_outer_cryostat_profile ==
    /\ pc = "profile_call"
    /\ profile' = Returned("outer_cryostat", outer_cryostat_profile(cryostat_meta))
    /\ pc' = "profile_done"
    /\ ProfileFrame

Call_cryostat_lid_profile ==
    /\ pc = "profile_call"
    /\ profile' = Returned("cryostat_lid", cryostat_lid_profile(cryostat_meta))
    /\ pc' = "profile_done"
    /\ ProfileFrame

Call_lead_profile ==
    /\ pc = "profile_call"
    /\ profile' = Returned("lead_shield", lead_profile(cryostat_meta))
    /\ pc' = "profile_done"
    /\ ProfileFrame

ProfileNext ==
    \/ Call_inner_cryostat_profile
    \/ Call_lar_profile
    \/ Call_gaseous_argon_profile
    \/ Call_outer_cryostat_profile
    \/ Call_cryostat_lid_profile
    \/ Call_lead_profile

SpecProfiles == ProfileInit /\ [][ProfileNext]_vars

----------------------------------------------------------------------------
(* Claims about the profile generators (checked under SpecProfiles) *)

AllPositive(m) ==
    /\ m.inner.radius_in_mm > 0
    /\ m.inner.upper.thickness_in_mm > 0 /\ m.inner.upper.height_in_mm > 0
    /\ m.inner.lower.thickness_in_mm > 0 /\ m.inner.lower.height_in_mm > 0
    /\ m.outer.radius_in_mm > 0 /\ m.outer.height_in_mm > 0
    /\ m.outer.thickness_in_mm > 0
    /\ m.top.height_in_mm > 0 /\ m.top.radius_in_mm > 0
    /\ m.gas_argon.height_in_mm > 0
    /\ m.lead.air_gap_in_mm > 0 /\ m.lead.thickness_in_mm > 0

RadiiNonNegative(p) == \A i \in 1..Len(p.radius) : p.radius[i] >= 0

\* the code's own expression for the upper radius of the gaseous argon
UpperGasRadius(m) ==
    m.inner.radius_in_mm + Half(m.inner.lower.thickness_in_mm)
        - Half(m.inner.upper.thickness_in_mm) - TOL

\* C1: every profile generator returns a radius list and a height list with the
\* same number of entries, for every dimension set.
C1_SameLength ==
    pc = "profile_done" => Len(profile.radius) = Len(profile.height)

C1_Witness ==
    /\ pc = "profile_done"
    /\ profile.name = "gaseous_argon"
    /\ Len(profile.radius) = 4
    /\ cryostat_meta.inner.upper.thickness_in_mm > cryostat_meta.inner.radius_in_mm

\* C2: with all dimension values positive, every radius of every
\* returned profile is >= 0.
C2_Original ==
    (pc = "profile_done" /\ AllPositive(cryostat_meta)) => RadiiNonNegative(profile)

\* What the code keeps of C2: every radius is >= 0 when the dimension values are
\* non-negative and the upper gaseous-argon radius, inner.radius
\* + lower.thickness / 2 - upper.thickness / 2 - TOL, is itself >= 0.
C2_RadiiNonNegative ==
    (pc = "profile_done" /\ UpperGasRadius(cryostat_meta) >= 0)
        => RadiiNonNegative(profile)

C2_Witness ==
    /\ pc = "profile_done"
    /\ profile.name = "lar"
    /\ UpperGasRadius(cryostat_meta) >= 0
    /\ cryostat_meta.inner.upper.thickness_in_mm > cryostat_meta.inner.lower.thickness_in_mm
    /\ profile.radius[4] < profile.radius[2]

----------------------------------------------------------------------------
(* The placement tree *)

PVNames == DOMAIN reg.physicalVolumeDict

\* the physical volumes that place the logical volume lv
PlacementsOf(lv) == {n \in PVNames : reg.physicalVolumeDict[n].lv = lv}

RECURSIVE UnderWorld(_, _)
\* the logical volume lv is the world, or is placed in a volume that is under
\* the world within k steps
UnderWorld(lv, k) ==
    \/ lv = reg.worldVolume
    \/ /\ k > 0
       /\ \E n \in PlacementsOf(lv) : UnderWorld(reg.physicalVolumeDict[n].mother, k - 1)

\* the mother the source gives to each component
MotherOf(n) ==
    IF n \in {"inner_cryostat", "outer_cryostat", "cryostat_lid", "lead_shield",
              "source", "cavern"} THEN reg.worldVolume
    ELSE IF n = "lar" THEN "inner_cryostat"
    ELSE IF n = "fiber_core" THEN "tpb_coating"
    ELSE "lar"

\* every physical volume has one mother, registered before it, the mother the
\* source gives it, and a chain of mothers that ends at the world
PlacementTree ==
    \A n \in PVNames :
      LET pv == reg.physicalVolumeDict[n]
      IN  /\ pv.mother \in DOMAIN reg.logicalVolumeDict
          /\ reg.logicalVolumeDict[pv.mother].seq < pv.seq
          /\ pv.mother = MotherOf(n)
          /\ pv.mother # pv.lv
          /\ UnderWorld(pv.mother, Cardinality(PVNames))
          /\ Cardinality(PlacementsOf(pv.lv)) = 1

C21_LibraryTree == (pc \in {"lib_cryostat", "lib_strings"} /\ err = "none") => PlacementTree

----------------------------------------------------------------------------
(* The vertical datum *)

\* the shift build_cryostat places the inner vessel with
VesselShift == 0 - reg.physicalVolumeDict["inner_cryostat"].z

\* what the placement of the fiber shroud adds to its configured offset
ShroudDatum ==
    reg.physicalVolumeDict["fiber_shroud"].z - config.fiber_shroud.center_pos_from_lar_center

\* what the placement of the source adds to its configured offset
SourceDatum == reg.physicalVolumeDict["source"].z - config.source.pos_from_lar_center

\* the height of the liquid: the vessel's two heights without the gas
LiquidHeight ==
    cryostat_meta.inner.lower.height_in_mm + cryostat_meta.inner.upper.height_in_mm
        - cryostat_meta.gas_argon.height_in_mm

----------------------------------------------------------------------------
(* The borders of the fiber shroud *)

\* the border surface name runs from pv1 to pv2 with the optical surface model,
\* and both physical volumes and the model were registered before it
BorderAfterPlacement(name, pv1, pv2, model) ==
    /\ name \in DOMAIN reg.surfaceDict
    /\ LET b == reg.surfaceDict[name]
       IN  /\ b.pv1 = pv1 /\ b.pv2 = pv2 /\ b.surface = model
           /\ {pv1, pv2} \subseteq PVNames
           /\ reg.physicalVolumeDict[pv1].seq < b.seq
           /\ reg.physicalVolumeDict[pv2].seq < b.seq
           /\ model \in DOMAIN reg.solidDict
           /\ reg.solidDict[model].kind = "OpticalSurface"

\* C23: when a fiber shroud is built, the lar and the coating have border
\* surfaces in both directions and the coating has one to the core, each between
\* two physical volumes placed before it, and the two pairs use the two different
\* optical surface models surface_lar_to_tpb and surface_to_fiber_core.
C23_ShroudBorders ==
    (pc \in {"strings", "source", "cavern", "returned"} /\ config.fiber_shroud.present)
        => /\ BorderAfterPlacement("bsurface_lar_tpb_fiber_shroud", "lar",
                                   "fiber_shroud", "surface_lar_to_tpb")
           /\ BorderAfterPlacement("bsurface_tpb_lar_fiber_shroud", "fiber_shroud",
                                   "lar", "surface_lar_to_tpb")
           /\ BorderAfterPlacement("bsurface_tpb_fiber", "fiber_shroud",
                                   "fiber_core", "surface_to_fiber_core")
           /\ reg.physicalVolumeDict["fiber_shroud"].lv = "tpb_coating"

C23_Witness ==
    /\ pc = "returned"
    /\ config.fiber_shroud.present
    /\ {"bsurface_lar_tpb_fiber_shroud", "bsurface_tpb_lar_fiber_shroud",
        "bsurface_tpb_fiber"} \subseteq DOMAIN reg.surfaceDict
    /\ reg.surfaceDict["bsurface_tpb_fiber"].surface
           # reg.surfaceDict["bsurface_lar_tpb_fiber_shroud"].surface

----------------------------------------------------------------------------
(* Detector lists of two and more entries *)

\* the detector name has its border surface from the lar
GermaniumBorder(name) ==
    /\ "bsurface_lar_ge_" \o name \in DOMAIN reg.surfaceDict
    /\ reg.surfaceDict["bsurface_lar_ge_" \o name].pv1 = "lar"
    /\ reg.surfaceDict["bsurface_lar_ge_" \o name].pv2 = name

\* C24: for every detector list of pairwise different names build_strings
\* registers no name twice, so it completes, and every detector has its border
\* surface bsurface_lar_ge_<name> from the lar to the detector.
C24_DistinctNamesComplete ==
    (pc = "lib_strings" /\ Len(call.hpges) >= 1 /\ DistinctNames(call.hpges))
        => /\ err # "IdenticalNameError"
           /\ \A i \in 1..Len(call.hpges) : GermaniumBorder(call.hpges[i].name)

\* what the code does with a list of two or more different names: the second
\* pass of the loop ends in the duplicate-name error, with the second detector
\* placed and without a border surface
C24_SecondDetectorFails ==
    (pc = "lib_strings" /\ Len(call.hpges) >= 2 /\ DistinctNames(call.hpges))
        => /\ err = "IdenticalNameError"
           /\ GermaniumBorder(call.hpges[1].name)
           /\ call.hpges[2].name \in PVNames
           /\ ~GermaniumBorder(call.hpges[2].name)
           /\ "fiber_shroud" \notin PVNames

----------------------------------------------------------------------------
(* Active-detector ids *)

\* the physical volumes tagged as active detectors
Tagged == {n \in PVNames : reg.physicalVolumeDict[n].pygeom_active_detector.kind # "none"}

C25_TwoIdsWitness ==
    /\ pc = "lib_strings"
    /\ err = "IdenticalNameError"
    /\ \E a \in Tagged, b \in Tagged :
          /\ reg.physicalVolumeDict[a].pygeom_active_detector.uid = 0
          /\ reg.physicalVolumeDict[b].pygeom_active_detector.uid = 1

----------------------------------------------------------------------------
(* The direction of the steel borders *)

\* C26: after build_cryostat, bsurface_lar_cryostat runs from the lar to the
\* inner_cryostat physical volume and bsurface_cryostat_lar from inner_cryostat
\* to the lar: the name of each surface states its direction.
C26_NamedDirection ==
    (pc = "lib_cryostat" /\ err = "none")
        => /\ reg.surfaceDict["bsurface_lar_cryostat"].pv1 = "lar"
           /\ reg.surfaceDict["bsurface_lar_cryostat"].pv2 = "inner_cryostat"
           /\ reg.surfaceDict["bsurface_cryostat_lar"].pv1 = "inner_cryostat"
           /\ reg.surfaceDict["bsurface_cryostat_lar"].pv2 = "lar"

\* what the code registers: each of the two surfaces runs against its name
C26_SwappedDirection ==
    (pc = "lib_cryostat" /\ "bsurface_cryostat_lar" \in DOMAIN reg.surfaceDict)
        => /\ reg.surfaceDict["bsurface_lar_cryostat"].pv1 = "inner_cryostat"
           /\ reg.surfaceDict["bsurface_lar_cryostat"].pv2 = "lar"
           /\ reg.surfaceDict["bsurface_cryostat_lar"].pv1 = "lar"
           /\ reg.surfaceDict["bsurface_cryostat_lar"].pv2 = "inner_cryostat"

----------------------------------------------------------------------------
(* The gas inside the lar *)

GasSolid == reg.solidDict["gaseous_argon"]

LarSolid == reg.solidDict["lar"]

\* the heights the gas occupies in the frame of the lar: between its two planes,
\* of which the second is the lower one when the gas is lower than 2 * TOL
GasBottom ==
    reg.physicalVolumeDict["gaseous_argon"].z
        + (IF GasSolid.height[4] < GasSolid.height[1] THEN GasSolid.height[4]
           ELSE GasSolid.height[1])

GasTop ==
    reg.physicalVolumeDict["gaseous_argon"].z
        + (IF GasSolid.height[4] < GasSolid.height[1] THEN GasSolid.height[1]
           ELSE GasSolid.height[4])

\* build_cryostat has returned with positive dimensions and a gas lower than
\* the vessel
GasBuilt ==
    /\ pc = "lib_cryostat"
    /\ err = "none"
    /\ cryostat_meta.gas_argon.height_in_mm > 0
    /\ cryostat_meta.gas_argon.height_in_mm
           < cryostat_meta.inner.lower.height_in_mm + cryostat_meta.inner.upper.height_in_mm

\* C27: for every positive dimension set with a gas lower than the two heights
\* of the vessel, the gas solid placed in the lar lies inside the lar solid: its radius
\* is at most the radius of the lar at every height it occupies, and its top is at
\* most the top of the lar.
C27_GasInsideLar ==
    GasBuilt
        => /\ reg.physicalVolumeDict["gaseous_argon"].z
                  = cryostat_meta.inner.lower.height_in_mm
                        + cryostat_meta.inner.upper.height_in_mm
                        - cryostat_meta.gas_argon.height_in_mm
           /\ GasBottom >= 0
           /\ GasTop <= LarSolid.height[6]
           /\ GasSolid.radius[2] <= LarSolid.radius[4]
           /\ GasBottom < LarSolid.height[3] => GasSolid.radius[2] <= LarSolid.radius[2]

\* what holds of the gas for every dimension set: its placement, its upper end
\* at most at the top of the lar and its radius TOL inside the upper part of the lar
C27_GasInUpperPart ==
    GasBuilt
        => /\ reg.physicalVolumeDict["gaseous_argon"].z
                  = cryostat_meta.inner.lower.height_in_mm
                        + cryostat_meta.inner.upper.height_in_mm
                        - cryostat_meta.gas_argon.height_in_mm
           /\ GasBottom >= 0
           /\ GasTop <= LarSolid.height[6]
           /\ GasSolid.radius[2] = LarSolid.radius[4] - TOL

----------------------------------------------------------------------------
(* The shifts of the validation plot *)

CryostatComponents ==
    {"inner_cryostat", "lar", "gaseous_argon", "outer_cryostat", "cryostat_lid",
     "lead_shield"}

RECURSIVE WorldZ(_, _)
\* the z position of the logical volume lv in the frame of the world: the sum of
\* the placement offsets along its chain of mothers, at most k of them
WorldZ(lv, k) ==
    IF lv = reg.worldVolume \/ k = 0 \/ PlacementsOf(lv) = {} THEN 0
    ELSE LET n == CHOOSE x \in PlacementsOf(lv) : TRUE
         IN  reg.physicalVolumeDict[n].z + WorldZ(reg.physicalVolumeDict[n].mother, k - 1)

\* C28: for every component of the cryostat the shift recorded for the
\* validation plot is the z position in the frame of the world at which the
\* component is placed.
C28_PlotShiftIsPlacement ==
    (pc = "lib_cryostat" /\ err = "none")
        => \A n \in CryostatComponents :
             profiles_shift(cryostat_meta)[n] = WorldZ(n, Cardinality(PVNames))

\* what the code records: the placement for the two vessels, the lar and the
\* lid; for the gas the lower thickness of the vessel is left out, and for the
\* lead one of the two thicknesses of the outer vessel
C28_PlotShifts ==
    (pc = "lib_cryostat" /\ err = "none")
        => LET m == cryostat_meta IN
           /\ \A n \in {"inner_cryostat", "lar", "outer_cryostat", "cryostat_lid"} :
                  profiles_shift(m)[n] = WorldZ(n, Cardinality(PVNames))
           /\ profiles_shift(m)["gaseous_argon"] + m.inner.lower.thickness_in_mm
                  = WorldZ("gaseous_argon", Cardinality(PVNames))
           /\ profiles_shift(m)["lead_shield"] - m.outer.thickness_in_mm
                  = WorldZ("lead_shield", Cardinality(PVNames))

----------------------------------------------------------------------------
(* Detector and source at the same offset *)

\* C29: a detector and a source configured with the same offset from the centre
\* of the lar end up at the same z in the frame of the world: construct() returns
\* a registry in which the z of the detector, summed over its mothers, less its
\* offset is the z of the source less its offset.
C29_DetectorLevelWithSource ==
    (Finished /\ Len(config.hpges) = 1 /\ config.source.present /\ WellConfigured)
        => /\ pc = "returned"
           /\ {config.hpges[1].name, "source"} \subseteq PVNames
           /\ WorldZ(config.hpges[1].name, Cardinality(PVNames))
                  - config.hpges[1].pplus_pos_from_lar_center
                  = SourceDatum

\* the z construct() gives to a source with the offset d (core.py:150)
SourceZ(d) ==
    d + Half(LiquidHeight)
      + (cryostat_meta.inner.lower.thickness_in_mm
             - Half(cryostat_meta.inner.lower.height_in_mm
                        + cryostat_meta.inner.upper.height_in_mm))

\* the positions themselves agree: a detector that build_strings places with the
\* lar_height of construct() is at the z in the world that construct() gives to a
\* source of the same offset
C29_SameWorldZ ==
    (pc = "lib_strings")
        => \A i \in 1..Len(call.hpges) :
             (FirstOfName(call.hpges, i) /\ call.hpges[i].name \in PVNames)
                 => WorldZ(call.hpges[i].name, Cardinality(PVNames))
                        = SourceZ(call.hpges[i].pplus_pos_from_lar_center)

----------------------------------------------------------------------------
(* The 360 degree fiber shroud and the world of the registry *)

\* a fiber function has returned
FibersBuilt == pc = "lib_fibers" /\ err = "none"

\* the physical volumes the call created
CreatedByCall == PVNames \ DOMAIN call.before.physicalVolumeDict

\* C30: build_fiber_shroud and build_fiber_shroud_from_config of fibers_360
\* leave the world of the registry as it was before the call, and return only
\* volumes whose names start with sipm_ and that the call created.
C30_WorldKeptSipmsReturned ==
    FibersBuilt
        => /\ reg.worldVolume = call.before.worldVolume
           /\ reg._world = call.before._world
           /\ \A n \in call.returned : startswith_sipm(n) /\ n \in CreatedByCall

\* what the functions do: the world set with setWorld stays, the private
\* attribute _world of the registry is left at the lar physical volume, and the
\* returned volumes are all those of the registry named sipm_..., whoever made them
C30_LarLeftAsWorld ==
    FibersBuilt
        => /\ reg.worldVolume = call.before.worldVolume
           /\ reg._world = "lar"
           /\ call.returned = {n \in PVNames : startswith_sipm(n)}

\* a second call returns the SiPMs of the first one as well
C30_ReturnsEarlierSipms ==
    /\ FibersBuilt
    /\ ~call.first
    /\ call.returned \ CreatedByCall # {}

\* a call whose channel prefixes do not start with sipm_ returns none of its SiPMs
C30_ReturnsNoneOfItsOwn ==
    /\ FibersBuilt
    /\ call.first
    /\ call.fibers.channel_top_prefix = "ch_top_"
    /\ call.returned = {}

====
